---- MODULE Spec2Model ----
(***************************************************************************)
(* Koi pond: the Fish agent (steering, integration, IK chain), the Ripple  *)
(* (expanding wave, scatter force) and the host loop of main.ts.           *)
(*                                                                         *)
(* Numbers are fixed point.  Lengths, velocities, forces, angles and the   *)
(* values of sin/cos are in thousandths (1 px = 1000, 1 rad = 1000);       *)
(* maxSpeed and baseMaxSpeed are in ten-thousandths of a px per tick so    *)
(* that the 5% decay keeps making progress below the 0.01 snap threshold.  *)
(* Products are kept below 2^31.                                           *)
(***************************************************************************)
EXTENDS Integers, Sequences, FiniteSets, TLC

VARIABLES
    fishes,    \* main.ts `fishes`: sequence of Fish objects
    ripples,   \* main.ts `ripples`: sequence of Ripple objects
    params,    \* RippleParams (gui/RippleParams.ts), the ripple configuration
    width,     \* p.width  (= window.innerWidth), thousandths of a px
    height,    \* p.height
    time,      \* main.ts `time`, in draw() frames (time += 0.01 per frame)
    pc,        \* position of the host inside draw(): "idle" between handlers
    query,     \* the last input from outside: the arguments and the result of the
               \* last getScatterForce() on the ripple under test, or the pointer
               \* position of the last mousePressed() of the host
    calls,     \* number of calls made on the object under test (object-level
               \* runs); in the host, the number of ripples created so far
    pruned,    \* number of ripples draw() has removed as not alive
    born,      \* for each ripple of the list, in list order: its creation number
               \* n and the frame `at` in which it was created
    sound      \* effects/DropSound.ts: audioCtx, audioBuffer, the loadBuffer()
               \* calls under way, and counts of what has been asked of the browser

vars == <<fishes, ripples, params, width, height, time, pc, query, calls, pruned, born,
          sound>>

----------------------------------------------------------------------------
(* Arithmetic helpers: what Math.* and p5.Vector do, in fixed point.       *)

Abs(x) == IF x < 0 THEN -x ELSE x

Min(a, b) == IF a < b THEN a ELSE b

Max(a, b) == IF a > b THEN a ELSE b

\* Division rounding toward zero (a float product or quotient, truncated).
TDiv(a, b) == IF a >= 0 THEN a \div b ELSE -((-a) \div b)

RECURSIVE SqrtIter(_, _)
SqrtIter(n, x) ==
    LET y == (x + n \div x) \div 2
    IN  IF y >= x THEN x ELSE SqrtIter(n, y)

\* Math.sqrt on a nonnegative integer: floor of the square root.
ISqrt(n) == IF n <= 0 THEN 0 ELSE SqrtIter(n, Min(n, 46340))

\* Math.sqrt(dx*dx + dy*dy); large arguments are scaled so squares fit.
Hypot(dx, dy) ==
    IF Max(Abs(dx), Abs(dy)) <= 32000
    THEN ISqrt(dx * dx + dy * dy)
    ELSE 100 * ISqrt(TDiv(dx, 100) * TDiv(dx, 100) + TDiv(dy, 100) * TDiv(dy, 100))

PI == 3142        \* Math.PI
TWO_PI == 6283    \* 2 * Math.PI
HALF_PI == 1571   \* Math.PI / 2

\* sin on [0, PI/2]: x - x^3/6 + x^5/120 - x^7/5040 in Horner form.
SinQ(x) ==
    LET x2 == (x * x) \div 1000
        a  == 1000 - x2 \div 42
        b  == 1000 - (x2 * a) \div 20000
        c  == 1000 - (x2 * b) \div 6000
    IN  (x * c) \div 1000

\* Math.sin
Sin(x) ==
    LET r == x % TWO_PI
    IN  IF r <= HALF_PI THEN SinQ(r)
        ELSE IF r <= PI THEN SinQ(PI - r)
        ELSE IF r <= PI + HALF_PI THEN -SinQ(r - PI)
        ELSE -SinQ(TWO_PI - r)

\* Math.cos
Cos(x) == Sin(x + HALF_PI)

\* e^t for t in [0, 2]: the Taylor series up to t^10 / 10!
RECURSIVE ExpSeries(_, _, _)
ExpSeries(t, term, k) ==
    IF k > 10 \/ term = 0 THEN 0
    ELSE term + ExpSeries(t, (term * t) \div (k * 1000), k + 1)

\* Math.exp(-t) for t >= 0
ExpNeg(t) == 1000000 \div ExpSeries(t, 1000, 1)

\* atan on [0, 1]: z * (pi/4 + 0.273 * (1 - z))
AtanQ(z) == (z * (785 + (273 * (1000 - z)) \div 1000)) \div 1000

\* Math.atan2(y, x), in (-PI, PI]
Atan2(y, x) ==
    LET ax == Abs(x)
        ay == Abs(y)
        a  == IF ax = 0 /\ ay = 0 THEN 0
              ELSE IF ax >= ay THEN AtanQ((ay * 1000) \div ax)
              ELSE HALF_PI - AtanQ((ax * 1000) \div ay)
    IN  IF x >= 0 THEN (IF y >= 0 THEN a ELSE -a)
        ELSE (IF y >= 0 THEN PI - a ELSE -(PI - a))

\* Math.atan2(Math.sin(d), Math.cos(d)): d brought into (-PI, PI]
NormalizeAngle(d) ==
    LET r == d % TWO_PI
    IN  IF r > PI THEN r - TWO_PI ELSE r

Vec(x, y) == [x |-> x, y |-> y]

VAdd(u, v) == Vec(u.x + v.x, u.y + v.y)

Mag(v) == Hypot(v.x, v.y)

\* p5.Vector.normalize(): a zero vector is left alone
Normalize(v) ==
    LET len == Mag(v)
    IN  IF len = 0 THEN v ELSE Vec(TDiv(v.x * 1000, len), TDiv(v.y * 1000, len))

\* p5.Vector.setMag(n) = normalize().mult(n)
SetMag(v, n) ==
    LET u == Normalize(v)
    IN  Vec(TDiv(u.x * n, 1000), TDiv(u.y * n, 1000))

\* Math.sqrt used as a divisor: rounded up, so that a fixed-point quotient
\* by it never exceeds the real quotient.
SqrtUp(n) == LET r == ISqrt(n) IN IF r * r = n THEN r ELSE r + 1

\* p5.Vector.magSq() > max * max, without overflow (max < 32000)
LongerThan(v, max) ==
    IF Max(Abs(v.x), Abs(v.y)) > 32000 THEN TRUE
    ELSE v.x * v.x + v.y * v.y > max * max

\* p5.Vector.limit(max): if magSq > max*max then div(sqrt(magSq)).mult(max)
Limit(v, max) ==
    IF LongerThan(v, max)
    THEN LET s   == IF Max(Abs(v.x), Abs(v.y)) > 250000 THEN 100 ELSE 8
             ux  == (Abs(v.x) + s - 1) \div s
             uy  == (Abs(v.y) + s - 1) \div s
             len == IF Max(Abs(v.x), Abs(v.y)) > 32000
                    THEN s * SqrtUp(ux * ux + uy * uy)
                    ELSE SqrtUp(v.x * v.x + v.y * v.y)
         IN  Vec(TDiv(v.x * max, len), TDiv(v.y * max, len))
    ELSE v

----------------------------------------------------------------------------
(* Ripple (effects/Ripple.ts) and its configuration RippleParams.          *)

\* RippleParams as shipped: speed 2, amplitude 8, waveWidth 50, maxRadius 200,
\* scatterStrength 6.5, scatterWindow 0.35, distanceFactor 10.
RippleParams(speed, maxRadius) ==
    [speed           |-> speed,
     amplitude       |-> 8000,
     waveWidth       |-> 50000,
     maxRadius       |-> maxRadius,
     scatterStrength |-> 6500,
     scatterWindow   |-> 350,
     distanceFactor  |-> 10000]

\* new Ripple(x, y)
NewRipple(x, y, P) ==
    [cx |-> x, cy |-> y, radius |-> 0,
     initAmplitude |-> P.amplitude, amplitude |-> P.amplitude, alive |-> TRUE]

\* Ripple.update() that ends the ripple as soon as radius reaches maxRadius
RippleUpdateDiesAtMax(r, P) ==
    LET rad == r.radius + P.speed
    IN  [r EXCEPT !.radius = rad,
                  !.amplitude = TDiv(r.initAmplitude
                                     * (1000 - TDiv(rad * 1000, P.maxRadius)), 1000),
                  !.alive = IF rad >= P.maxRadius THEN FALSE ELSE r.alive]

\* Ripple.update()
RippleUpdate(r, P) ==
    LET rad == r.radius + P.speed
    IN  [r EXCEPT !.radius = rad,
                  !.amplitude = TDiv(r.initAmplitude
                                     * (1000 - TDiv(rad * 1000, P.maxRadius)), 1000),
                  !.alive = IF rad > P.maxRadius THEN FALSE ELSE r.alive]

\* Ripple.getDisplacement(x, y) without the early return outside the wave band
GetDisplacementNoBand(r, P, x, y) ==
    LET ddx  == x - r.cx
        ddy  == y - r.cy
        dist == Hypot(ddx, ddy)
        diff == dist - r.radius
        q    == TDiv(diff * 1000, P.waveWidth) % 1000
        envelope == ExpNeg((2 * q * q) \div 1000)
        wave == Sin((q * TWO_PI) \div 1000)
        displacement == TDiv(TDiv(r.amplitude * envelope, 1000) * wave, 1000)
        s    == IF Max(Abs(ddx), Abs(ddy)) > 32000 THEN 100 ELSE 1
    IN  IF dist < 100 THEN [dx |-> 0, dy |-> 0]
        ELSE [dx |-> TDiv(TDiv(ddx, s) * displacement, TDiv(dist, s)),
              dy |-> TDiv(TDiv(ddy, s) * displacement, TDiv(dist, s))]

\* Ripple.getDisplacement(x, y): the displacement of the point (x, y), along
\* the line from the centre, non-zero only near the wavefront
GetDisplacement(r, P, x, y) ==
    LET ddx  == x - r.cx
        ddy  == y - r.cy
        dist == Hypot(ddx, ddy)
        diff == dist - r.radius
        q    == TDiv(diff * 1000, P.waveWidth)   \* diff / waveWidth
        envelope == ExpNeg((2 * q * q) \div 1000)
        wave == Sin((q * TWO_PI) \div 1000)
        displacement == TDiv(TDiv(r.amplitude * envelope, 1000) * wave, 1000)
        s    == IF Max(Abs(ddx), Abs(ddy)) > 32000 THEN 100 ELSE 1
    IN  IF Abs(diff) > P.waveWidth THEN [dx |-> 0, dy |-> 0]
        ELSE IF dist < 100 THEN [dx |-> 0, dy |-> 0]
        ELSE [dx |-> TDiv(TDiv(ddx, s) * displacement, TDiv(dist, s)),
              dy |-> TDiv(TDiv(ddy, s) * displacement, TDiv(dist, s))]

\* scatterRange = Math.min(window.innerWidth * 0.3, 300)
ScatterRange(innerWidth) == Min(TDiv(innerWidth * 3, 10), 300000)

\* getScatterForce without the two distance guards
GetScatterForceUnguarded(r, P, innerWidth, fishX, fishY) ==
    LET scatterRange == ScatterRange(innerWidth)
        ddx  == fishX - r.cx
        ddy  == fishY - r.cy
        dist == Max(Hypot(ddx, ddy), 1)
    IN  IF r.radius * 1000 > P.scatterWindow * P.maxRadius THEN Vec(0, 0)
        ELSE LET progress  == TDiv(r.radius * 1000, P.maxRadius)
                 distRatio == 1000 - TDiv(dist * 1000, scatterRange)
                 proximityBoost == 1000 + TDiv(P.distanceFactor * distRatio, 1000)
                 s1 == TDiv(P.scatterStrength * distRatio, 1000)
                 s2 == TDiv(s1 * proximityBoost, 1000)
                 strength == TDiv(s2 * (1000 - TDiv(progress * 1000, P.scatterWindow)), 1000)
             IN  Vec(TDiv(TDiv(ddx * 1000, dist) * strength, 1000),
                     TDiv(TDiv(ddy * 1000, dist) * strength, 1000))

\* getScatterForce without the scatter-window guard
GetScatterForceNoWindow(r, P, innerWidth, fishX, fishY) ==
    LET scatterRange == ScatterRange(innerWidth)
        ddx  == fishX - r.cx
        ddy  == fishY - r.cy
        dist == Hypot(ddx, ddy)
    IN  IF dist < 1000 THEN Vec(0, 0)
        ELSE IF dist > scatterRange THEN Vec(0, 0)
        ELSE LET progress  == TDiv(r.radius * 1000, P.maxRadius)
                 distRatio == 1000 - TDiv(dist * 1000, scatterRange)
                 proximityBoost == 1000 + TDiv(P.distanceFactor * distRatio, 1000)
                 s1 == TDiv(P.scatterStrength * distRatio, 1000)
                 s2 == TDiv(s1 * proximityBoost, 1000)
                 strength == TDiv(s2 * (1000 - TDiv(progress * 1000, P.scatterWindow)), 1000)
             IN  Vec(TDiv(TDiv(ddx * 1000, dist) * strength, 1000),
                     TDiv(TDiv(ddy * 1000, dist) * strength, 1000))

\* Ripple.getScatterForce(fishX, fishY)
GetScatterForce(r, P, innerWidth, fishX, fishY) ==
    LET scatterRange == ScatterRange(innerWidth)
        ddx  == fishX - r.cx
        ddy  == fishY - r.cy
        dist == Hypot(ddx, ddy)
    IN  IF r.radius * 1000 > P.scatterWindow * P.maxRadius THEN Vec(0, 0)
        ELSE IF dist < 1000 THEN Vec(0, 0)
        ELSE IF dist > scatterRange THEN Vec(0, 0)
        ELSE LET progress  == TDiv(r.radius * 1000, P.maxRadius)
                 distRatio == 1000 - TDiv(dist * 1000, scatterRange)
                 proximityBoost == 1000 + TDiv(P.distanceFactor * distRatio, 1000)
                 s1 == TDiv(P.scatterStrength * distRatio, 1000)
                 s2 == TDiv(s1 * proximityBoost, 1000)
                 strength == TDiv(s2 * (1000 - TDiv(progress * 1000, P.scatterWindow)), 1000)
             IN  Vec(TDiv(TDiv(ddx * 1000, dist) * strength, 1000),
                     TDiv(TDiv(ddy * 1000, dist) * strength, 1000))

----------------------------------------------------------------------------
(* Segment (agent/Segment.ts)                                              *)

\* Segment.calculateB(): b = a + length * (cos angle, sin angle)
CalculateB(s) ==
    [s EXCEPT !.b = Vec(s.a.x + TDiv(s.length * Cos(s.angle), 1000),
                        s.a.y + TDiv(s.length * Sin(s.angle), 1000))]

\* new Segment(x, y, length, angle)
NewSegment(x, y, length, angle) ==
    CalculateB([a |-> Vec(x, y), b |-> Vec(0, 0), length |-> length, angle |-> angle])

----------------------------------------------------------------------------
(* Fish (agent/Fish.ts, latest variant)                                    *)

SEGMENT_COUNT == 8   \* this.segmentCount
MAX_FORCE == 150     \* this.maxForce = 0.15

\* AlignStart taking the previous segment's start instead of its end
AlignStartAtPrevStart(prev) == Vec(prev.a.x, prev.a.y)

\* The start point a segment takes from the one before it: a.set(prev.b.x, prev.b.y)
AlignStart(prev) == Vec(prev.b.x, prev.b.y)

\* constructor, lines 162-181: segments head to tail, all pointing backward
RECURSIVE InitSegments(_, _, _, _)
InitSegments(segs, x, y, length) ==
    IF Len(segs) = SEGMENT_COUNT THEN segs
    ELSE LET start == IF Len(segs) = 0 THEN Vec(x, y)
                      ELSE AlignStart(segs[Len(segs)])
         IN  InitSegments(Append(segs, NewSegment(start.x, start.y, length, PI)),
                          x, y, length)

\* p.map(size, 173, 302, 1.15, 0.75)
SizeRatio(size) == 1150 + TDiv((size - 173000) * (750 - 1150), 302000 - 173000)

\* new Fish(x, y); heading, speed0, size and speedRand are the constructor's
\* random draws: random2D(), random(0.8, 1.5), random(210, 360), random(1.5, 2.5)
NewFish(x, y, heading, speed0, size, speedRand) ==
    LET ms == TDiv(speedRand * SizeRatio(size), 100)
    IN  [position      |-> Vec(x, y),
         velocity      |-> Vec(TDiv(Cos(heading) * speed0, 1000),
                               TDiv(Sin(heading) * speed0, 1000)),
         acceleration  |-> Vec(0, 0),
         size          |-> size,
         maxSpeed      |-> ms,
         baseMaxSpeed  |-> ms,
         maxForce      |-> MAX_FORCE,
         wanderTheta   |-> 0,
         swimOffset    |-> 0,
         movementAngle |-> 0,
         segments      |-> InitSegments(<<>>, x, y, TDiv(size * 6, 100))]

\* Fish.resetSegments()
RECURSIVE ResetFrom(_, _, _)
ResetFrom(f, segs, i) ==
    IF i > Len(segs) THEN segs
    ELSE LET start == IF i = 1 THEN Vec(f.position.x, f.position.y)
                      ELSE AlignStart(segs[i - 1])
             seg   == CalculateB([segs[i] EXCEPT !.a = start,
                                                 !.angle = f.movementAngle + PI])
         IN  ResetFrom(f, [segs EXCEPT ![i] = seg], i + 1)

ResetSegments(f) == [f EXCEPT !.segments = ResetFrom(f, f.segments, 1)]

\* Fish.updateSkeleton(), the loop over segments 1..N-1 (k is the code's index i)
RECURSIVE SkeletonFrom(_, _, _)
SkeletonFrom(f, segs, i) ==
    IF i > Len(segs) THEN segs
    ELSE LET k    == i - 1
             n    == Len(segs)
             swimAngleAmplitude == TDiv(k * k * k * 800, n * n * n)
             angleOffset == TDiv(Sin(f.swimOffset + k * 700) * swimAngleAmplitude, 1000)
             prev == segs[i - 1]
             seg  == CalculateB([segs[i] EXCEPT !.a = AlignStart(prev),
                                                !.angle = prev.angle + angleOffset])
         IN  SkeletonFrom(f, [segs EXCEPT ![i] = seg], i + 1)

\* updateSkeleton() that leaves the head's start point where it was
UpdateSkeletonHeadStays(f) ==
    LET headSwingAmplitude == TDiv(PI, 22)
        headSwingAngle == TDiv(Sin(f.swimOffset) * headSwingAmplitude, 1000)
        head == CalculateB([f.segments[1] EXCEPT
                              !.angle = f.movementAngle + PI + headSwingAngle])
    IN  [f EXCEPT !.segments = SkeletonFrom(f, [f.segments EXCEPT ![1] = head], 2)]

\* Fish.updateSkeleton()
UpdateSkeleton(f) ==
    LET headSwingAmplitude == TDiv(PI, 22)
        headSwingAngle == TDiv(Sin(f.swimOffset) * headSwingAmplitude, 1000)
        head == CalculateB([f.segments[1] EXCEPT
                              !.a = Vec(f.position.x, f.position.y),
                              !.angle = f.movementAngle + PI + headSwingAngle])
    IN  [f EXCEPT !.segments = SkeletonFrom(f, [f.segments EXCEPT ![1] = head], 2)]

\* Fish.applyForce(force)
ApplyForce(f, force) == [f EXCEPT !.acceleration = VAdd(f.acceleration, force)]

\* Fish.wander(): wanderTheta += random(-0.3, 0.3); the steering vector
WanderTheta(f, dtheta) == f.wanderTheta + dtheta

Wander(f, dtheta) ==
    LET theta  == WanderTheta(f, dtheta)
        u      == Normalize(f.velocity)
        circle == Vec(u.x * 80, u.y * 80)
        offset == Vec(50 * Cos(theta), 50 * Sin(theta))
    IN  SetMag(VAdd(circle, offset), f.maxForce)

\* WrapX teleporting to the edge of the canvas instead of the margin
WrapXToEdge(f, w) ==
    LET margin == TDiv(f.size * 2, 10)
    IN  IF f.position.x < -margin
        THEN ResetSegments([f EXCEPT !.position.x = w])
        ELSE IF f.position.x > w + margin
        THEN ResetSegments([f EXCEPT !.position.x = 0])
        ELSE f

\* update(), lines 199-207: wraparound on x, with the chain reset
WrapX(f, w) ==
    LET margin == TDiv(f.size * 2, 10)
    IN  IF f.position.x < -margin
        THEN ResetSegments([f EXCEPT !.position.x = w + margin])
        ELSE IF f.position.x > w + margin
        THEN ResetSegments([f EXCEPT !.position.x = -margin])
        ELSE f

\* WrapY that never teleports
WrapYNever(f, h) == f

\* update(), lines 208-214: wraparound on y, with the chain reset
WrapY(f, h) ==
    LET margin == TDiv(f.size * 2, 10)
    IN  IF f.position.y < -margin
        THEN ResetSegments([f EXCEPT !.position.y = h + margin])
        ELSE IF f.position.y > h + margin
        THEN ResetSegments([f EXCEPT !.position.y = -margin])
        ELSE f

\* RestoreMaxSpeed without the snap to baseMaxSpeed
RestoreMaxSpeedNoSnap(f) ==
    IF f.maxSpeed > f.baseMaxSpeed
    THEN [f EXCEPT !.maxSpeed = @ + TDiv((f.baseMaxSpeed - f.maxSpeed) * 5, 100)]
    ELSE f

\* update(), lines 216-222: maxSpeed relaxes toward baseMaxSpeed by 5% a tick
\* and snaps to it once the gap is below 0.01
RestoreMaxSpeed(f) ==
    IF f.maxSpeed > f.baseMaxSpeed
    THEN LET ms == f.maxSpeed + TDiv((f.baseMaxSpeed - f.maxSpeed) * 5, 100)
         IN  [f EXCEPT !.maxSpeed = IF ms - f.baseMaxSpeed < 100
                                    THEN f.baseMaxSpeed ELSE ms]
    ELSE f

\* Integrate moving the position before the velocity is limited
IntegrateMoveBeforeLimit(f) ==
    LET u == VAdd(f.velocity, f.acceleration)
    IN  [f EXCEPT !.velocity = Limit(u, f.maxSpeed \div 10),
                  !.position = VAdd(f.position, u),
                  !.acceleration = Vec(0, 0)]

\* Integrate without velocity.limit(maxSpeed)
IntegrateNoLimit(f) ==
    LET v == VAdd(f.velocity, f.acceleration)
    IN  [f EXCEPT !.velocity = v,
                  !.position = VAdd(f.position, v),
                  !.acceleration = Vec(0, 0)]

\* update(), lines 224-228: velocity += acceleration; limit; position += velocity
Integrate(f) ==
    LET v == Limit(VAdd(f.velocity, f.acceleration), f.maxSpeed \div 10)
    IN  [f EXCEPT !.velocity = v,
                  !.position = VAdd(f.position, v),
                  !.acceleration = Vec(0, 0)]

\* TurnAmount clamping the difference first and damping it afterwards
TurnAmountClampThenDamp(f, dx, dy) ==
    LET normalizedDiff == NormalizeAngle(Atan2(dy, dx) - f.movementAngle)
        maxTurn        == TDiv(20 * PI, 180)
    IN  TDiv(Max(-maxTurn, Min(maxTurn, normalizedDiff)) * 2, 10)

\* TurnAmount without the clamp to maxTurn
TurnAmountUnclamped(f, dx, dy) ==
    TDiv(NormalizeAngle(Atan2(dy, dx) - f.movementAngle) * 2, 10)

\* update(), lines 235-245: the heading turns toward the direction of travel
TurnAmount(f, dx, dy) ==
    LET targetAngle    == Atan2(dy, dx)
        angleDiff      == targetAngle - f.movementAngle
        normalizedDiff == NormalizeAngle(angleDiff)
        maxTurn        == TDiv(20 * PI, 180)
    IN  Max(-maxTurn, Min(maxTurn, TDiv(normalizedDiff * 2, 10)))

\* UpdateHeading advancing the swim phase by the velocity instead of the
\* position delta
UpdateHeadingSwimByVelocity(f, prevX, prevY) ==
    LET dx    == f.position.x - prevX
        dy    == f.position.y - prevY
        speed == Hypot(dx, dy)
    IN  [f EXCEPT !.movementAngle = IF speed > 100 THEN @ + TurnAmount(f, dx, dy) ELSE @,
                  !.swimOffset = @ + TDiv(Mag(f.velocity) * 15, 100)]

\* update(), lines 230-248: heading and swim phase from the position delta
UpdateHeading(f, prevX, prevY) ==
    LET dx    == f.position.x - prevX
        dy    == f.position.y - prevY
        speed == Hypot(dx, dy)
    IN  [f EXCEPT !.movementAngle = IF speed > 100 THEN @ + TurnAmount(f, dx, dy) ELSE @,
                  !.swimOffset = @ + TDiv(speed * 15, 100)]

EDGE_BAND == 50000   \* the band of the margin-steering variant: margin = 50

\* The inward force of the margin-steering variant of update(): maxForce
\* away from each edge the position is within EDGE_BAND of
EdgeSteer(f, w, h) ==
    Vec((IF f.position.x < EDGE_BAND THEN f.maxForce ELSE 0)
          + (IF f.position.x > w - EDGE_BAND THEN -f.maxForce ELSE 0),
        (IF f.position.y < EDGE_BAND THEN f.maxForce ELSE 0)
          + (IF f.position.y > h - EDGE_BAND THEN -f.maxForce ELSE 0))

\* Fish.update() that also steers inward inside the edge band
FishUpdateEdgeSteer(f, dtheta, w, h) ==
    LET prevX == f.position.x
        prevY == f.position.y
        f1 == ApplyForce(ApplyForce([f EXCEPT !.wanderTheta = WanderTheta(f, dtheta)],
                                    Wander(f, dtheta)),
                         EdgeSteer(f, w, h))
        f2 == WrapY(WrapX(f1, w), h)
        f3 == Integrate(RestoreMaxSpeed(f2))
        f4 == UpdateHeading(f3, prevX, prevY)
    IN  UpdateSkeleton(f4)

\* Fish.update() with maxSpeed restored after the integration instead of before
FishUpdateRestoreLast(f, dtheta, w, h) ==
    LET prevX == f.position.x
        prevY == f.position.y
        f1 == ApplyForce([f EXCEPT !.wanderTheta = WanderTheta(f, dtheta)],
                         Wander(f, dtheta))
        f2 == WrapY(WrapX(f1, w), h)
        f3 == RestoreMaxSpeed(Integrate(f2))
        f4 == UpdateHeading(f3, prevX, prevY)
    IN  UpdateSkeleton(f4)

\* Fish.update(); dtheta is the draw of random(-wanderChange, wanderChange),
\* w and h are p.width and p.height
FishUpdate(f, dtheta, w, h) ==
    LET prevX == f.position.x
        prevY == f.position.y
        f1 == ApplyForce([f EXCEPT !.wanderTheta = WanderTheta(f, dtheta)],
                         Wander(f, dtheta))
        f2 == WrapY(WrapX(f1, w), h)
        f3 == Integrate(RestoreMaxSpeed(f2))
        f4 == UpdateHeading(f3, prevX, prevY)
    IN  UpdateSkeleton(f4)

\* BoostedSpeed without the Math.min cap on the boost
BoostedSpeedUncapped(f, force) ==
    f.baseMaxSpeed + Hypot(force.x, force.y) * 3

\* applyScatterForce, lines 318-324: the speed boost of one ripple's force
BoostedSpeed(f, force) ==
    LET forceMag == Hypot(force.x, force.y)
        boost    == Min(forceMag * 3, f.baseMaxSpeed * 2)
    IN  f.baseMaxSpeed + boost

\* ScatterOne storing the boosted speed in baseMaxSpeed instead of maxSpeed
ScatterOneWrongField(f, force) ==
    IF force.x # 0 \/ force.y # 0
    THEN LET g  == ApplyForce(f, Limit(force, f.maxForce * 8))
             bs == BoostedSpeed(f, force)
         IN  IF bs > g.maxSpeed THEN [g EXCEPT !.baseMaxSpeed = bs] ELSE g
    ELSE f

\* ScatterOne adding the whole scatter force, without the limit of maxForce * 8
ScatterOneUnclamped(f, force) ==
    IF force.x # 0 \/ force.y # 0
    THEN LET g  == ApplyForce(f, force)
             bs == BoostedSpeed(f, force)
         IN  IF bs > g.maxSpeed THEN [g EXCEPT !.maxSpeed = bs] ELSE g
    ELSE f

\* applyScatterForce, the body of the loop for one ripple
ScatterOne(f, force) ==
    IF force.x # 0 \/ force.y # 0
    THEN LET g  == ApplyForce(f, Limit(force, f.maxForce * 8))
             bs == BoostedSpeed(f, force)
         IN  IF bs > g.maxSpeed THEN [g EXCEPT !.maxSpeed = bs] ELSE g
    ELSE f

\* Fish.applyScatterForce(ripples)
RECURSIVE ApplyScatterForce(_, _, _, _)
ApplyScatterForce(f, rs, P, innerWidth) ==
    IF rs = <<>> THEN f
    ELSE ApplyScatterForce(
             ScatterOne(f, GetScatterForce(Head(rs), P, innerWidth,
                                           f.position.x, f.position.y)),
             Tail(rs), P, innerWidth)

----------------------------------------------------------------------------
(* DropSound (effects/DropSound.ts): the lazily loaded click sound.        *)

\* The module state before the first call: audioCtx = null, audioBuffer = null.
\* ctxs counts new AudioContext(), fetches fetch(), decodes decodeAudioData(),
\* starts source.start(), plays the playDropSound() calls made from outside;
\* loads holds the stage of every loadBuffer() call.
NoSound ==
    [ctxs |-> 0, buffer |-> FALSE, loads |-> <<>>,
     fetches |-> 0, decodes |-> 0, starts |-> 0, plays |-> 0]

\* getAudioContext()
GetAudioContext(s) == IF s.ctxs = 0 THEN [s EXCEPT !.ctxs = 1] ELSE s

\* loadBuffer() up to its first await: fetch(waterBubbleUrl) is sent
LoadBuffer(s) ==
    LET c == GetAudioContext(s)
    IN  [c EXCEPT !.fetches = @ + 1, !.loads = Append(@, "fetch")]

\* playDropSound(): without a buffer a load is started, whose completion
\* calls playDropSound() again; with the buffer a source is started
PlayDropSound(s) ==
    LET c == GetAudioContext(s)
    IN  IF ~c.buffer THEN LoadBuffer(c)
        ELSE [c EXCEPT !.starts = @ + 1]

----------------------------------------------------------------------------
(* FishSpec: one Fish driven through its public methods in any order, with  *)
(* any ripple list handed to applyScatterForce and any window size.         *)

MaxCalls == 5   \* calls made on the fish in one run

\* The host is between two handlers
Idle == [at |-> "idle", i |-> 0]

NoQuery == [x |-> 0, y |-> 0, fx |-> 0, fy |-> 0, asked |-> FALSE,
            dx |-> 0, dy |-> 0, displaced |-> FALSE]

\* main.ts setup(): fish are placed at random(100, width - 100)
StartX == 100000
StartY == 100000

\* The constructor's random draws: <<heading, speed0, size, speedRand>>
FishDraws ==
    { <<0, 800, 210000, 1500>>,
      <<0, 1499, 359000, 1500>>,
      <<PI, 1499, 300000, 2499>>,
      <<PI, 800, 359000, 2499>>,
      <<PI + HALF_PI, 1499, 210000, 2499>>,
      <<PI + HALF_PI, 1200, 359000, 1500>> }

\* Window sizes <<p.width, p.height>>
WindowSizes == { <<400000, 400000>>, <<20000, 20000>> }

\* Draws of random(-wanderChange, wanderChange)
WanderDraws == { -299, 299 }

\* A ripple of the shipped configuration after n updates
RECURSIVE Aged(_, _, _)
Aged(r, P, n) == IF n = 0 THEN r ELSE Aged(RippleUpdate(r, P), P, n - 1)

Shipped == RippleParams(2000, 200000)

\* Ripple lists handed to applyScatterForce: one fresh ripple 30 px from the
\* start point, two fresh ripples on top of each other's range, and one old
\* ripple 110 px away (a faint push).
ScatterInputs ==
    { <<NewRipple(StartX + 30000, StartY, Shipped)>>,
      <<NewRipple(StartX - 20000, StartY + 20000, Shipped),
        Aged(NewRipple(StartX, StartY - 40000, Shipped), Shipped, 10)>>,
      <<Aged(NewRipple(StartX + 66000, StartY + 88000, Shipped), Shipped, 34)>> }

FishInit ==
    /\ \E d \in FishDraws :
           fishes = <<NewFish(StartX, StartY, d[1], d[2], d[3], d[4])>>
    /\ ripples = <<>>
    /\ params = Shipped
    /\ width = 400000
    /\ height = 400000
    /\ time = 0
    /\ pc = Idle
    /\ query = NoQuery
    /\ calls = 0
    /\ pruned = 0
    /\ born = <<>>
    /\ sound = NoSound

\* fish.applyScatterForce(rs)
FishScatter ==
    /\ calls < MaxCalls
    /\ \E rs \in ScatterInputs :
           fishes' = <<ApplyScatterForce(fishes[1], rs, params, width)>>
    /\ calls' = calls + 1
    /\ UNCHANGED <<ripples, params, width, height, time, pc, query, pruned, born, sound>>

\* fish.update(physics, time)
FishTick ==
    /\ calls < MaxCalls
    /\ \E dtheta \in WanderDraws :
           fishes' = <<FishUpdate(fishes[1], dtheta, width, height)>>
    /\ calls' = calls + 1
    /\ time' = time + 1
    /\ UNCHANGED <<ripples, params, width, height, pc, query, pruned, born, sound>>

\* The window is resized between two calls (p.windowResized)
FishResize ==
    /\ calls < MaxCalls
    /\ \E wh \in WindowSizes :
           /\ wh # <<width, height>>
           /\ width' = wh[1]
           /\ height' = wh[2]
    /\ calls' = calls + 1
    /\ UNCHANGED <<fishes, ripples, params, time, pc, query, pruned, born, sound>>

FishNext == FishScatter \/ FishTick \/ FishResize

FishSpec == FishInit /\ [][FishNext]_vars

----------------------------------------------------------------------------
(* Properties of the Fish (FishSpec)                                       *)

Fishes == 1 .. Len(fishes)

Continuous(f) ==
    \A i \in 2 .. Len(f.segments) :
        /\ f.segments[i].a.x = f.segments[i - 1].b.x
        /\ f.segments[i].a.y = f.segments[i - 1].b.y

\* |velocity| <= maxSpeed (maxSpeed is in ten-thousandths, velocity in thousandths)
WithinMaxSpeed(f) ==
    f.velocity.x * f.velocity.x + f.velocity.y * f.velocity.y
        <= (f.maxSpeed \div 10) * (f.maxSpeed \div 10)

\* C1: chain continuity. After construction and after every update() tick,
\* wraparound ticks included, every segment after the first starts exactly
\* where the segment before it ends.
C1_ChainContinuity == \A k \in Fishes : Continuous(fishes[k])

\* C1 witness: an update() has run on a fish that was wrapped to the far side
\* (x below 0 is reached only through the wraparound) and its chain is whole.
C1_Witness ==
    /\ time > 0
    /\ fishes[1].position.x < 0
    /\ fishes[1].segments[1].a = fishes[1].position
    /\ Continuous(fishes[1])

\* C2: speed bound. At the end of every update() tick (the steps that advance
\* time), whatever calls came before it, the magnitude of velocity is at most
\* the current maxSpeed.
C2_SpeedBound ==
    [][time' = time + 1 => \A k \in Fishes : WithinMaxSpeed(fishes'[k])]_vars

\* C2 witness: a tick has run after a scatter boost, the boost is decaying and
\* the velocity sits at the limit (within rounding of maxSpeed).
C2_Witness ==
    /\ time > 0
    /\ fishes[1].maxSpeed > fishes[1].baseMaxSpeed
    /\ WithinMaxSpeed(fishes[1])
    /\ Mag(fishes[1].velocity) + 3 >= fishes[1].maxSpeed \div 10

\* C3 as claimed: |velocity| <= maxSpeed in every reachable state, the state
\* right after construction included.
C3_SpeedBoundAlways == \A k \in Fishes : WithinMaxSpeed(fishes[k])

\* C3 amended: |velocity| <= maxSpeed holds in every state from the end of the
\* first update() on; before the first update() the velocity is only bounded
\* by the constructor's speed draw (below 1.5), which can exceed maxSpeed.
C3_SpeedBoundAfterFirstUpdate ==
    \A k \in Fishes :
        IF time = 0
        THEN fishes[k].velocity.x * fishes[k].velocity.x
               + fishes[k].velocity.y * fishes[k].velocity.y < 1500 * 1500
        ELSE WithinMaxSpeed(fishes[k])

\* C3 witness: a fish built faster than its maxSpeed has been slowed to it by
\* its first update().
C3_Witness ==
    /\ time = 1
    /\ fishes[1].baseMaxSpeed < 14000
    /\ WithinMaxSpeed(fishes[1])
    /\ Mag(fishes[1].velocity) + 3 >= fishes[1].maxSpeed \div 10

\* C4: maxSpeed >= baseMaxSpeed in every reachable state, and baseMaxSpeed
\* never changes after construction.
C4_MaxSpeedAtLeastBase ==
    /\ [](\A k \in Fishes : fishes[k].maxSpeed >= fishes[k].baseMaxSpeed)
    /\ [][\A k \in Fishes : fishes'[k].baseMaxSpeed = fishes[k].baseMaxSpeed]_vars

\* C4 witness: a boost was given and an update() has since run (the
\* acceleration is spent): maxSpeed has decayed and is still above baseMaxSpeed.
C4_Witness ==
    /\ time > 0
    /\ fishes[1].acceleration = Vec(0, 0)
    /\ fishes[1].maxSpeed > fishes[1].baseMaxSpeed
    /\ fishes[1].maxSpeed < 3 * fishes[1].baseMaxSpeed

\* C5: the scatter boost is capped: maxSpeed <= 3 * baseMaxSpeed in every
\* reachable state.
C5_BoostCapped == \A k \in Fishes : fishes[k].maxSpeed <= 3 * fishes[k].baseMaxSpeed

\* C5 witness: the cap is reached (a strong push from a near, fresh ripple).
C5_Witness ==
    /\ calls > 0
    /\ fishes[1].maxSpeed = 3 * fishes[1].baseMaxSpeed
    /\ fishes[1].acceleration # Vec(0, 0)

\* The wrap margin of a fish: size * 0.2
Margin(f) == (f.size * 2) \div 10

\* The fish is beyond the outer wrap margin on some axis
BeyondMargin(f, w, h) ==
    \/ f.position.x < -Margin(f) \/ f.position.x > w + Margin(f)
    \/ f.position.y < -Margin(f) \/ f.position.y > h + Margin(f)

\* The distance from a segment's start to its end is its length, up to the
\* rounding of sin and cos (1%)
LengthKept(seg) ==
    Abs(Hypot(seg.b.x - seg.a.x, seg.b.y - seg.a.y) - seg.length) <= seg.length \div 100

\* C16: heading turn-rate bound. In every update() tick, wraparound ticks
\* included, the heading changes by at most 20 degrees.
C16_TurnRateBound ==
    [][time' = time + 1
        => \A k \in Fishes :
               Abs(fishes'[k].movementAngle - fishes[k].movementAngle)
                   <= (20 * PI) \div 180]_vars

\* C16 witness: the first update() was a wraparound tick (the fish is left of
\* the canvas) and turned the heading from 0 by the full 20 degrees.
C16_Witness ==
    /\ time = 1
    /\ fishes[1].position.x < 0
    /\ Abs(fishes[1].movementAngle) = (20 * PI) \div 180

\* C17: wraparound atomicity. In a tick that starts with the fish beyond the
\* wrap margin on an axis, by the end of that update() the first segment
\* starts at the position, every other segment starts where the one before it
\* ends, and no segment's length has changed.
C17_WraparoundAtomicity ==
    [][time' = time + 1
        => \A k \in Fishes :
               BeyondMargin(fishes[k], width, height)
                   => /\ fishes'[k].segments[1].a = fishes'[k].position
                      /\ Continuous(fishes'[k])
                      /\ \A i \in 1 .. SEGMENT_COUNT :
                             /\ fishes'[k].segments[i].length
                                    = fishes[k].segments[i].length
                             /\ LengthKept(fishes'[k].segments[i])]_vars

\* C17 witness: the fish was wrapped on y (y below 0 is reached only by the
\* wraparound) and its chain hangs on its position, lengths intact.
C17_Witness ==
    /\ time > 0
    /\ fishes[1].position.y < 0
    /\ fishes[1].segments[1].a = fishes[1].position
    /\ \A i \in 1 .. SEGMENT_COUNT :
           /\ fishes[1].segments[i].length = (fishes[1].size * 6) \div 100
           /\ LengthKept(fishes[1].segments[i])

\* A coordinate after the wrap step
WrappedCoord(c, extent, m) ==
    IF c < -m THEN extent + m ELSE IF c > extent + m THEN -m ELSE c

\* C20: screen wraparound. The wrap step of update() takes x below -margin to
\* width + margin and x above width + margin to -margin (likewise y with
\* height), and changes nothing else but the segment chain: the other
\* coordinate, velocity, maxSpeed and heading are as before; the position at
\* the end of the tick is the wrapped position plus the velocity.
C20_ScreenWraparound ==
    /\ [](\A k \in Fishes :
            LET f == fishes[k]
                g == WrapX(f, width)
                e == WrapY(f, height)
            IN  /\ g.position.x = WrappedCoord(f.position.x, width, Margin(f))
                /\ g.position.y = f.position.y
                /\ e.position.y = WrappedCoord(f.position.y, height, Margin(f))
                /\ e.position.x = f.position.x
                /\ \A r \in {g, e} :
                       /\ r.velocity = f.velocity
                       /\ r.maxSpeed = f.maxSpeed
                       /\ r.movementAngle = f.movementAngle)
    /\ [][time' = time + 1
            => \A k \in Fishes :
                   /\ fishes'[k].position.x - fishes'[k].velocity.x
                          = WrappedCoord(fishes[k].position.x, width, Margin(fishes[k]))
                   /\ fishes'[k].position.y - fishes'[k].velocity.y
                          = WrappedCoord(fishes[k].position.y, height, Margin(fishes[k]))]_vars

\* C20 witness: a fish that had drifted left of -margin was taken to
\* width + margin by the last update() and moved on from there.
C20_Witness ==
    /\ time >= 2
    /\ fishes[1].velocity.x < 0
    /\ fishes[1].position.x - fishes[1].velocity.x = width + Margin(fishes[1])

\* The position delta of a tick, from the position at its start
TickDelta(f, g) == Vec(g.position.x - f.position.x, g.position.y - f.position.y)

\* The shortest signed angular difference from the heading of f to the
\* direction of the delta d
HeadingDiff(f, d) == NormalizeAngle(Atan2(d.y, d.x) - f.movementAngle)

Clamp(x, lo, hi) == Max(lo, Min(hi, x))

\* C21 as claimed: clamp-then-damp. When the tick's displacement is longer
\* than 0.1 the heading changes by 0.2 * clamp(d, -20 deg, +20 deg), so by at
\* most 4 degrees.
C21_ClampThenDamp ==
    [][time' = time + 1
        => \A k \in Fishes :
               LET d == TickDelta(fishes[k], fishes'[k])
                   turn == fishes'[k].movementAngle - fishes[k].movementAngle
               IN  /\ Mag(d) > 100
                      => turn = (Clamp(HeadingDiff(fishes[k], d),
                                       -((20 * PI) \div 180), (20 * PI) \div 180) * 2) \div 10
                   /\ Abs(turn) <= (4 * PI) \div 180]_vars

\* C21 amended: damp-then-clamp. When the tick's displacement is longer than
\* 0.1 the heading changes by clamp(0.2 * d, -20 deg, +20 deg), so by at most
\* 20 degrees; otherwise it does not change.
C21_DampThenClamp ==
    [][time' = time + 1
        => \A k \in Fishes :
               LET d == TickDelta(fishes[k], fishes'[k])
                   turn == fishes'[k].movementAngle - fishes[k].movementAngle
               IN  /\ Mag(d) > 100
                      => turn = Clamp(TDiv(HeadingDiff(fishes[k], d) * 2, 10),
                                      -((20 * PI) \div 180), (20 * PI) \div 180)
                   /\ Mag(d) <= 100 => turn = 0
                   /\ Abs(turn) <= (20 * PI) \div 180]_vars

\* C21 witness: the first update() turned the heading by more than 4 and
\* less than 20 degrees (a fish that set out sideways).
C21_Witness ==
    /\ time = 1
    /\ Abs(fishes[1].movementAngle) > (4 * PI) \div 180
    /\ Abs(fishes[1].movementAngle) < (20 * PI) \div 180

\* C22: integration order. In every update() the accumulated acceleration
\* (the forces applied since the last tick and this tick's wander force) is
\* added to velocity, the sum is limited to maxSpeed, the limited velocity is
\* added to the position, and acceleration is the zero vector at the end.
C22_IntegrationOrder ==
    [][time' = time + 1
        => \A k \in Fishes :
               LET f == fishes[k]
                   g == fishes'[k]
                   steer == Wander(f, g.wanderTheta - f.wanderTheta)
                   acc == VAdd(f.acceleration, steer)
               IN  /\ g.velocity = Limit(VAdd(f.velocity, acc), g.maxSpeed \div 10)
                   /\ g.position.x
                          = WrappedCoord(f.position.x, width, Margin(f)) + g.velocity.x
                   /\ g.position.y
                          = WrappedCoord(f.position.y, height, Margin(f)) + g.velocity.y
                   /\ g.acceleration = Vec(0, 0)]_vars

\* C22 witness: a scatter force was integrated by the last update(): the fish
\* moves faster than its base speed, within the boosted maxSpeed, and its
\* acceleration is spent.
C22_Witness ==
    /\ time > 0
    /\ fishes[1].acceleration = Vec(0, 0)
    /\ WithinMaxSpeed(fishes[1])
    /\ Mag(fishes[1].velocity) > fishes[1].baseMaxSpeed \div 10 + 100

\* C24: swim phase. swimOffset never decreases; an update() tick adds
\* 0.15 * the length of the tick's position delta to it (nothing when the
\* position did not change), and no other call changes it.
C24_SwimPhase ==
    /\ [][\A k \in Fishes : fishes'[k].swimOffset >= fishes[k].swimOffset]_vars
    /\ [][\A k \in Fishes :
             LET d == TickDelta(fishes[k], fishes'[k])
             IN  /\ fishes'[k].swimOffset - fishes[k].swimOffset = (Mag(d) * 15) \div 100
                 /\ d = Vec(0, 0) => fishes'[k].swimOffset = fishes[k].swimOffset]_vars

\* C24 witness: a wraparound tick has advanced the swim phase by 0.15 * the
\* length of the teleport (more than 10 rad).
C24_Witness ==
    /\ time = 1
    /\ fishes[1].position.x < 0
    /\ fishes[1].swimOffset > 10000

\* The acceleration one ripple adds to the fish f: what ScatterOne adds
Contribution(f, r) ==
    LET g == ScatterOne(f, GetScatterForce(r, params, width, f.position.x, f.position.y))
    IN  Vec(g.acceleration.x - f.acceleration.x, g.acceleration.y - f.acceleration.y)

RECURSIVE SumContributions(_, _)
SumContributions(f, rs) ==
    IF rs = <<>> THEN Vec(0, 0)
    ELSE LET c == Contribution(f, Head(rs))
             s == SumContributions(f, Tail(rs))
         IN  Vec(c.x + s.x, c.y + s.y)

\* a and b point the same way, up to the rounding of a's components
SameDirection(a, b) ==
    /\ Abs(a.x * b.y - a.y * b.x) <= Abs(b.x) + Abs(b.y)
    /\ a.x * b.x + a.y * b.y > 0

\* C25: scatter clamp. What a ripple adds to the acceleration is no longer
\* than 8 * maxForce and points along the ripple's scatter force; a ripple
\* whose scatter force is zero changes neither acceleration nor maxSpeed; and
\* one applyScatterForce call adds the sum of its ripples' contributions.
C25_ScatterClamp ==
    /\ [](\A rs \in ScatterInputs : \A i \in 1..Len(rs) :
            LET f     == fishes[1]
                force == GetScatterForce(rs[i], params, width, f.position.x, f.position.y)
                g     == ScatterOne(f, force)
                c     == Contribution(f, rs[i])
            IN  /\ Mag(c) <= 8 * f.maxForce
                /\ force # Vec(0, 0) => SameDirection(c, force)
                /\ force = Vec(0, 0) =>
                       /\ g.acceleration = f.acceleration
                       /\ g.maxSpeed = f.maxSpeed)
    /\ [][(calls' = calls + 1 /\ time' = time /\ width' = width) =>
             \E rs \in ScatterInputs :
                 LET s == SumContributions(fishes[1], rs)
                 IN  /\ fishes'[1].acceleration.x = fishes[1].acceleration.x + s.x
                     /\ fishes'[1].acceleration.y = fishes[1].acceleration.y + s.y
                     /\ (s = Vec(0, 0) /\ \A i \in 1..Len(rs) :
                             GetScatterForce(rs[i], params, width, fishes[1].position.x,
                                             fishes[1].position.y) = Vec(0, 0))
                           => fishes'[1] = fishes[1]]_vars

\* C25 witness: the first call, applyScatterForce with the ripple 30 px away,
\* has added a clamped force (the unclamped one is far longer than 8 * maxForce).
C25_Witness ==
    /\ calls = 1
    /\ time = 0
    /\ Mag(fishes[1].acceleration) >= 8 * fishes[1].maxForce - 2
    /\ Mag(fishes[1].acceleration) <= 8 * fishes[1].maxForce
    /\ Mag(GetScatterForce(NewRipple(StartX + 30000, StartY, Shipped), params, width,
                           fishes[1].position.x, fishes[1].position.y))
           > 8 * fishes[1].maxForce

\* The last update() of f teleported it on the x axis (the y axis): the
\* position before the velocity was added is a wraparound target
JustWrappedX(f, w) ==
    time > 0 /\ f.position.x - f.velocity.x \in {-Margin(f), w + Margin(f)}
JustWrappedY(f, h) ==
    time > 0 /\ f.position.y - f.velocity.y \in {-Margin(f), h + Margin(f)}

\* C28: no wraparound ping-pong. A fish that update() wrapped on an axis is
\* not wrapped on that axis again by the next update().
C28_NoPingPong ==
    [][time' = time + 1 =>
         \A k \in Fishes :
             LET f == fishes[k]
             IN  /\ JustWrappedX(f, width) =>
                        ~(f.position.x < -Margin(f) \/ f.position.x > width + Margin(f))
                 /\ JustWrappedY(f, height) =>
                        ~(f.position.y < -Margin(f) \/ f.position.y > height + Margin(f))]_vars

----------------------------------------------------------------------------
(* LiveSpec: one Fish that is pushed by ripples during a first phase and   *)
(* then only updated, every tick being taken (the frame clock keeps        *)
(* calling draw(), so update() keeps being called).                        *)

ScatterPhase == 3   \* calls during which applyScatterForce may still push
QuietTicks == 135   \* update() ticks explored after the last push

LiveDraws ==
    { <<0, 800, 210000, 1500>>,
      <<PI, 1499, 359000, 1500>>,
      <<PI + HALF_PI, 1499, 210000, 2499>> }

LiveScatterInputs ==
    { <<NewRipple(StartX + 30000, StartY, Shipped)>>,
      <<Aged(NewRipple(StartX + 66000, StartY + 88000, Shipped), Shipped, 30)>> }

LiveInit ==
    /\ \E d \in LiveDraws :
           fishes = <<NewFish(StartX, StartY, d[1], d[2], d[3], d[4])>>
    /\ ripples = <<>>
    /\ params = Shipped
    /\ width = 400000
    /\ height = 400000
    /\ time = 0
    /\ pc = Idle
    /\ query = NoQuery
    /\ calls = 0
    /\ pruned = 0
    /\ born = <<>>
    /\ sound = NoSound

\* fish.applyScatterForce(rs), in the first phase only
LiveScatter ==
    /\ calls < ScatterPhase
    /\ \E rs \in LiveScatterInputs :
           fishes' = <<ApplyScatterForce(fishes[1], rs, params, width)>>
    /\ calls' = calls + 1
    /\ UNCHANGED <<ripples, params, width, height, time, pc, query, pruned, born, sound>>

\* fish.update(physics, time)
LiveTick ==
    /\ calls < ScatterPhase + QuietTicks
    /\ fishes' = <<FishUpdate(fishes[1], 0, width, height)>>
    /\ calls' = calls + 1
    /\ time' = time + 1
    /\ UNCHANGED <<ripples, params, width, height, pc, query, pruned, born, sound>>

LiveNext == LiveScatter \/ LiveTick

\* A LiveTick step, told by what it does to the counters: the frame clock
\* advances.  draw() is called on every frame, so ticks keep being taken.
FrameTaken ==
    /\ calls < ScatterPhase + QuietTicks
    /\ calls' = calls + 1
    /\ time' = time + 1

LiveSpec == LiveInit /\ [][LiveNext]_vars /\ WF_<<calls, time>>(FrameTaken)

\* C6: scattering returns to wandering. Once no ripple pushes the fish any
\* more, after finitely many update() ticks maxSpeed equals baseMaxSpeed
\* exactly, and stays equal from then on.
C6_BoostDecaysToBase ==
    <>[](\A k \in Fishes : fishes[k].maxSpeed = fishes[k].baseMaxSpeed)

\* C6 witness: long after the last push the boost has decayed to within one
\* 5% step of the 0.01 snap threshold; the next update() snaps it.
C6_Witness ==
    /\ time > 100
    /\ fishes[1].maxSpeed - fishes[1].baseMaxSpeed >= 100
    /\ fishes[1].maxSpeed - fishes[1].baseMaxSpeed < 106
    /\ RestoreMaxSpeed(fishes[1]).maxSpeed = fishes[1].baseMaxSpeed

----------------------------------------------------------------------------
(* RippleSpec: one Ripple driven through update() and getScatterForce(),   *)
(* update() possibly called again after the ripple has ended.              *)

MaxRippleUpdates == 104   \* update() calls made on the ripple in one run

\* Ripple configurations: as shipped; the scenario with maxRadius 150; and a
\* scatter configuration with a window over the whole life and no proximity boost
RippleConfigs ==
    { Shipped,
      RippleParams(2000, 150000),
      [Shipped EXCEPT !.maxRadius = 100000, !.scatterWindow = 1000,
                      !.scatterStrength = 3000, !.distanceFactor = 0] }

\* window.innerWidth: scatterRange is 300 px in the wide window, 120 px in the other
InnerWidths == { 1200000, 400000 }

\* Centre of the ripple under test
CentreX == 500000
CentreY == 500000

\* Query points, as offsets from the centre: on the centre, inside 1 px, at
\* 1 px, 50 px away (two directions), and around the 120 px and 300 px ranges
QueryOffsets ==
    { <<0, 0>>, <<999, 0>>, <<600, -700>>, <<1000, 0>>, <<-800, 700>>,
      <<30000, 40000>>, <<-50000, 0>>, <<-119900, 0>>, <<120000, 0>>, <<0, 120100>>,
      <<180000, 240000>>, <<180100, 240000>>, <<-400000, 0>> }

RippleInit ==
    /\ params \in RippleConfigs
    /\ width \in InnerWidths
    /\ ripples = <<NewRipple(CentreX, CentreY, params)>>
    /\ fishes = <<>>
    /\ height = 400000
    /\ time = 0
    /\ pc = Idle
    /\ query = NoQuery
    /\ calls = 0
    /\ pruned = 0
    /\ born = <<[n |-> 1, at |-> 0]>>
    /\ sound = NoSound

\* ripple.update()
RippleTick ==
    /\ calls < MaxRippleUpdates
    /\ ripples' = <<RippleUpdate(ripples[1], params)>>
    /\ calls' = calls + 1
    /\ query' = NoQuery
    /\ UNCHANGED <<fishes, params, width, height, time, pc, pruned, born, sound>>

\* ripple.getScatterForce(x, y)
RippleQuery ==
    /\ \E o \in QueryOffsets :
           LET x == CentreX + o[1]
               y == CentreY + o[2]
               force == GetScatterForce(ripples[1], params, width, x, y)
           IN  query' = [NoQuery EXCEPT !.x = x, !.y = y, !.fx = force.x,
                                        !.fy = force.y, !.asked = TRUE]
    /\ UNCHANGED <<fishes, ripples, params, width, height, time, pc, calls, pruned, born, sound>>

\* ripple.getDisplacement(x, y)
RippleDisplace ==
    /\ \E o \in QueryOffsets :
           LET x == CentreX + o[1]
               y == CentreY + o[2]
               d == GetDisplacement(ripples[1], params, x, y)
           IN  query' = [NoQuery EXCEPT !.x = x, !.y = y, !.dx = d.dx, !.dy = d.dy,
                                        !.displaced = TRUE]
    /\ UNCHANGED <<fishes, ripples, params, width, height, time, pc, calls, pruned, born, sound>>

RippleNext == RippleTick \/ RippleQuery \/ RippleDisplace

RippleSpec == RippleInit /\ [][RippleNext]_vars

----------------------------------------------------------------------------
(* Properties of the Ripple (RippleSpec)                                   *)

Ripples == 1 .. Len(ripples)

\* C7: after every update(), alive holds exactly when radius <= maxRadius;
\* alive turns false once, on the first update() that takes radius above
\* maxRadius, and never turns true again.
C7_AliveUntilPastMaxRadius ==
    /\ [](\A i \in Ripples : ripples[i].alive <=> ripples[i].radius <= params.maxRadius)
    /\ [][\A i \in Ripples :
             /\ ~ripples[i].alive => ~ripples'[i].alive
             /\ (ripples[i].alive /\ ~ripples'[i].alive)
                    => (ripples[i].radius <= params.maxRadius
                        /\ ripples'[i].radius > params.maxRadius)]_vars

\* C7 witness: update() has run on a ripple that had already ended (its radius
\* is more than one step past maxRadius) and the ripple is still not alive.
C7_Witness ==
    /\ ~ripples[1].alive
    /\ ripples[1].radius > params.maxRadius + params.speed
    /\ calls > 0

\* C9: with maxRadius = 150 and speed = 2 the ripple is alive after each of
\* its first 75 update() calls and not alive after the 76th.
C9_Lifetime ==
    (params.maxRadius = 150000 /\ params.speed = 2000)
        => \A i \in Ripples :
               /\ (calls >= 1 /\ calls <= 75) => ripples[i].alive
               /\ calls = 76 => ~ripples[i].alive

\* C9 witness: the 76th update() of the scenario's ripple has run.
C9_Witness ==
    /\ params.maxRadius = 150000
    /\ params.speed = 2000
    /\ calls = 76
    /\ ripples[1].radius = 152000
    /\ ~ripples[1].alive

\* The queried point's distance to the centre, compared exactly: offsets are
\* either small or whole tenths of a px, so the squares fit.
QueryFartherThan(d) ==
    LET dx == query.x - ripples[1].cx
        dy == query.y - ripples[1].cy
    IN  IF Max(Abs(dx), Abs(dy)) <= 32000 /\ d <= 32000
        THEN dx * dx + dy * dy > d * d
        ELSE (dx \div 100) * (dx \div 100) + (dy \div 100) * (dy \div 100)
                 > (d \div 100) * (d \div 100)

QueryNearerThan(d) ==
    LET dx == query.x - ripples[1].cx
        dy == query.y - ripples[1].cy
    IN  Max(Abs(dx), Abs(dy)) <= 32000 /\ dx * dx + dy * dy < d * d

\* C10: scatter locality. getScatterForce(x, y) returns the zero vector
\* whenever the point is farther from the centre than scatterRange or nearer
\* than 1 px, for every radius and configuration.
C10_ScatterLocality ==
    (query.asked /\ (QueryFartherThan(ScatterRange(width)) \/ QueryNearerThan(1000)))
        => (query.fx = 0 /\ query.fy = 0)

\* C10 witness: a fresh ripple, inside its scatter window, asked about a point
\* off the centre but nearer than 1 px, answers zero.
C10_Witness ==
    /\ query.asked
    /\ QueryNearerThan(1000)
    /\ query.x # ripples[1].cx
    /\ ripples[1].radius * 1000 <= params.scatterWindow * params.maxRadius
    /\ query.fx = 0
    /\ query.fy = 0

\* The queried point lies 50 px from the centre (offsets are whole 10 px here)
QueryAtFifty ==
    LET dx == (query.x - ripples[1].cx) \div 10000
        dy == (query.y - ripples[1].cy) \div 10000
    IN  /\ (query.x - ripples[1].cx) % 10000 = 0
        /\ (query.y - ripples[1].cy) % 10000 = 0
        /\ dx * dx + dy * dy = 25

\* The returned force is a positive multiple of the offset from the centre,
\* up to the rounding of its two components
QueryForceAway ==
    LET dx == (query.x - ripples[1].cx) \div 10000
        dy == (query.y - ripples[1].cy) \div 10000
    IN  /\ query.fx * dx + query.fy * dy > 0
        /\ Abs(query.fx * dy - query.fy * dx) <= Abs(dx) + Abs(dy)

\* C11: scatter window. With scatterRange = 300 and scatterWindow = 0.35, a
\* point 50 px from the centre gets, after the first update(), a nonzero force
\* pointing away from the centre, and on every later tick at which
\* radius / maxRadius > 0.35 it gets the zero vector.
C11_ScatterWindow ==
    (query.asked /\ QueryAtFifty /\ ScatterRange(width) = 300000
                 /\ params.scatterWindow = 350)
        => /\ calls = 1 => QueryForceAway
           /\ (calls > 1 /\ ripples[1].radius * 1000 > 350 * params.maxRadius)
                  => (query.fx = 0 /\ query.fy = 0)

\* C11 witness: the ripple of the scenario is past 0.35 of its life and still
\* alive, and the point 50 px away is answered with the zero vector.
C11_Witness ==
    /\ query.asked
    /\ QueryAtFifty
    /\ ScatterRange(width) = 300000
    /\ params.scatterWindow = 350
    /\ calls > 1
    /\ ripples[1].alive
    /\ ripples[1].radius * 1000 > 350 * params.maxRadius
    /\ query.fx = 0
    /\ query.fy = 0


\* The queried point as an offset from the centre, scaled down when it is far
\* (the far query points are multiples of 100)
QueryScale == IF Max(Abs(query.x - ripples[1].cx), Abs(query.y - ripples[1].cy)) > 32000
              THEN 100 ELSE 1
QueryDdx == (query.x - ripples[1].cx) \div QueryScale
QueryDdy == (query.y - ripples[1].cy) \div QueryScale
QueryDist == Hypot(query.x - ripples[1].cx, query.y - ripples[1].cy)

\* C26: getDisplacement(x, y) is (0, 0) when the point is farther than
\* waveWidth from the wavefront (|dist - radius| > waveWidth) or nearer than
\* 0.1 to the centre; otherwise it lies on the line from the centre through
\* the point (up to the rounding of its two components).
C26_Displacement ==
    query.displaced =>
        /\ (Abs(QueryDist - ripples[1].radius) > params.waveWidth \/ QueryDist < 100)
               => (query.dx = 0 /\ query.dy = 0)
        /\ Abs(query.dx * QueryDdy - query.dy * QueryDdx) <= Abs(QueryDdx) + Abs(QueryDdy)

\* C26 witness: a point off both axes, inside the wave band of a ripple that
\* has expanded, is displaced in both coordinates.
C26_Witness ==
    /\ query.displaced
    /\ calls > 0
    /\ Abs(QueryDist - ripples[1].radius) <= params.waveWidth
    /\ query.dx # 0
    /\ query.dy # 0
    /\ Abs(query.dx) # Abs(query.dy)

----------------------------------------------------------------------------
(* Spec: the host loop of main.ts.  Handlers run to completion one at a    *)
(* time; draw() is followed through its numbered steps.                    *)

MaxFrames == 2     \* draw() frames in one run
MaxClicks == 6     \* ripples created in one run
NumFish == 2       \* quality.fishCount in the runs explored
MAX_RIPPLES == 5   \* mousePressed: at most 5 ripples

\* The configuration of the host runs: ripples that expand 150 px a frame, so
\* that one ends on its second update, with a scatter window that is still
\* open after the first
HostParams == [Shipped EXCEPT !.speed = 150000, !.scatterWindow = 800]

\* The constructor draws of the i-th fish of setup()
HostDraws ==
    << <<PI, 1499, 359000, 1500>>,
       <<0, 800, 210000, 2499>>,
       <<PI + HALF_PI, 1200, 300000, 2000>> >>

HostFish(i) ==
    LET d == HostDraws[((i - 1) % Len(HostDraws)) + 1]
    IN  NewFish(StartX + 40000 * (i - 1), StartY, d[1], d[2], d[3], d[4])

\* Pointer positions <<mouseX, mouseY>> of the clicks: 30 px from the first
\* fish; on the right and top edges of the large window; just left of the
\* canvas; just below the large window
ClickPoints ==
    { <<130000, 100000>>, <<400000, 0>>, <<-1, 100000>>, <<130000, 400001>> }

\* Draws of random(-wanderChange, wanderChange) in the host runs
HostWanderDraws == { 0 }

\* setup()
Init ==
    /\ fishes = [i \in 1 .. NumFish |-> HostFish(i)]
    /\ ripples = <<>>
    /\ params = HostParams
    /\ width = 400000
    /\ height = 400000
    /\ time = 0
    /\ pc = Idle
    /\ query = NoQuery
    /\ calls = 0
    /\ pruned = 0
    /\ born = <<>>
    /\ sound = NoSound

\* InBounds testing the lower bounds only
InBoundsLowerOnly(mx, my, w, h) == mx >= 0 /\ my >= 0

\* mousePressed, lines 119-124: the pointer is on the canvas
InBounds(mx, my, w, h) == mx >= 0 /\ mx <= w /\ my >= 0 /\ my <= h

\* Evict that never removes anything
EvictNever(xs) == xs

\* Evict removing the newest entry (pop) instead of the oldest
EvictNewest(xs) ==
    IF Len(xs) >= MAX_RIPPLES THEN SubSeq(xs, 1, Len(xs) - 1) ELSE xs

\* mousePressed, lines 126-128: if (ripples.length >= 5) ripples.shift()
Evict(xs) == IF Len(xs) >= MAX_RIPPLES THEN Tail(xs) ELSE xs

\* mousePressed, lines 119-131: the ripple list after a click at (mx, my)
ClickedRipples(rs, mx, my, w, h, P) ==
    IF InBounds(mx, my, w, h)
    THEN Append(Evict(rs), NewRipple(mx, my, P))
    ELSE rs

\* p.mousePressed; the creation record of a new ripple follows the list
MousePressed ==
    /\ pc = Idle
    /\ calls < MaxClicks
    /\ \E m \in ClickPoints :
           /\ ripples' = ClickedRipples(ripples, m[1], m[2], width, height, params)
           /\ born' = IF InBounds(m[1], m[2], width, height)
                      THEN Append(Evict(born), [n |-> calls + 1, at |-> time])
                      ELSE born
           /\ calls' = IF InBounds(m[1], m[2], width, height)
                       THEN calls + 1 ELSE calls
           /\ query' = [NoQuery EXCEPT !.x = m[1], !.y = m[2], !.asked = TRUE]
           /\ sound' = IF InBounds(m[1], m[2], width, height)
                       THEN PlayDropSound([sound EXCEPT !.plays = @ + 1])
                       ELSE sound
    /\ UNCHANGED <<fishes, params, width, height, time, pc, pruned>>

\* p.windowResized
WindowResized ==
    /\ pc = Idle
    /\ \E wh \in WindowSizes :
           /\ wh # <<width, height>>
           /\ width' = wh[1]
           /\ height' = wh[2]
    /\ UNCHANGED <<fishes, ripples, params, time, pc, query, calls, pruned, born, sound>>

\* PruneDead keeping every ripple
PruneKeepsAll(rs) == rs

\* draw, line 79: ripples.filter((r) => r.alive)
PruneDead(rs) == SelectSeq(rs, LAMBDA r : r.alive)

\* UpdateAll leaving out the last ripple of the list
UpdateAllButLast(rs, P) ==
    [i \in 1 .. Len(rs) |-> IF i < Len(rs) THEN RippleUpdate(rs[i], P) ELSE rs[i]]

\* draw, lines 76-78: for (const ripple of ripples) ripple.update()
UpdateAll(rs, P) == [i \in 1 .. Len(rs) |-> RippleUpdate(rs[i], P)]

\* The entries of xs at the places where the ripple of rs is alive
RECURSIVE KeptBy(_, _)
KeptBy(rs, xs) ==
    IF rs = <<>> THEN <<>>
    ELSE IF Head(rs).alive THEN <<Head(xs)>> \o KeptBy(Tail(rs), Tail(xs))
    ELSE KeptBy(Tail(rs), Tail(xs))

\* p.draw, lines 68-78: time advances and every ripple is updated
DrawUpdateRipples ==
    /\ pc = Idle
    /\ time < MaxFrames
    /\ time' = time + 1
    /\ ripples' = UpdateAll(ripples, params)
    /\ pc' = [at |-> "prune", i |-> 0]
    /\ query' = NoQuery
    /\ UNCHANGED <<fishes, params, width, height, calls, pruned, born, sound>>

\* p.draw, line 79: the ripples that are not alive are dropped
DrawPrune ==
    /\ pc.at = "prune"
    /\ ripples' = PruneDead(ripples)
    /\ born' = KeptBy(ripples, born)
    /\ pruned' = pruned + (Len(ripples) - Len(ripples'))
    /\ pc' = IF Len(fishes) > 0 THEN [at |-> "fish", i |-> 1]
             ELSE [at |-> "display", i |-> 0]
    /\ UNCHANGED <<fishes, params, width, height, time, query, calls, sound>>

\* p.draw, lines 82-86: one pass of the loop over the fish
DrawFish ==
    /\ pc.at = "fish"
    /\ \E dtheta \in HostWanderDraws :
           fishes' = [fishes EXCEPT ![pc.i] =
                        FishUpdate(ApplyScatterForce(@, ripples, params, width),
                                   dtheta, width, height)]
    /\ pc' = IF pc.i < Len(fishes) THEN [at |-> "fish", i |-> pc.i + 1]
             ELSE [at |-> "display", i |-> 0]
    /\ UNCHANGED <<ripples, params, width, height, time, query, calls, pruned, born, sound>>

\* p.draw, lines 89-98: the ripples are displayed and the frame is composed
DrawRippleDisplay ==
    /\ pc.at = "display"
    /\ pc' = Idle
    /\ UNCHANGED <<fishes, ripples, params, width, height, time, query, calls, pruned, born, sound>>

Next ==
    \/ MousePressed
    \/ WindowResized
    \/ DrawUpdateRipples
    \/ DrawPrune
    \/ DrawFish
    \/ DrawRippleDisplay

Spec == Init /\ [][Next]_vars

----------------------------------------------------------------------------
(* Properties of the host loop (Spec)                                      *)

\* C8: a ripple that is not alive is never updated again and never reaches a
\* fish's scatter query, the displacement query or Ripple.display: between
\* handlers, and in draw() from step 3 on, every ripple in the list is alive.
C8_OnlyAliveRipplesUsed ==
    pc.at \in {"idle", "fish", "display"} => \A i \in Ripples : ripples[i].alive

\* C8 witness: step 3 of a frame starts after step 2 has dropped an ended
\* ripple, with ripples left in the list.
C8_Witness ==
    /\ pc = [at |-> "fish", i |-> 1]
    /\ pruned > 0
    /\ Len(ripples) > 0
    /\ \A i \in Ripples : ripples[i].alive

\* A step of mousePressed that created a ripple
RippleCreated == pc = Idle /\ pc' = Idle /\ calls' = calls + 1

\* A step of mousePressed, whether or not it created a ripple
ClickTaken == pc = Idle /\ pc' = Idle /\ (calls' # calls \/ query' # query)

\* C12: ripple cap. In every reachable state of the host, whatever the
\* interleaving of clicks and frames, the list holds at most 5 ripples.
C12_RippleCap == Len(ripples) <= 5

\* C12 witness: six ripples were created before the first frame and five are
\* in the list.
C12_Witness ==
    /\ time = 0
    /\ calls = 6
    /\ Len(ripples) = 5

\* C13: FIFO eviction. The list is always in order of creation; when a click
\* creates a ripple while 5 exist, the list loses exactly its earliest-created
\* ripple, the other four keep their state and order, and the new ripple is
\* the last and newest.
C13_FifoEviction ==
    /\ [](/\ Len(born) = Len(ripples)
          /\ \A i \in 1 .. Len(born) - 1 : born[i].n < born[i + 1].n)
    /\ [][(RippleCreated /\ Len(ripples) = 5)
            => /\ Len(ripples') = 5
               /\ \A j \in 2 .. 5 : born[1].n < born[j].n
               /\ \A i \in 1 .. 4 : ripples'[i] = ripples[i + 1] /\ born'[i] = born[i + 1]
               /\ \A i \in 1 .. 4 : born'[5].n > born'[i].n
               /\ ripples'[5] = NewRipple(query'.x, query'.y, params)]_vars

\* C13 witness: the first ripple was evicted by a click after a frame: the
\* list holds ripples 2 to 6, the oldest already expanded, the newest fresh.
C13_Witness ==
    /\ time > 0
    /\ Len(ripples) = 5
    /\ born[1].n = 2
    /\ born[5].n = 6
    /\ ripples[1].radius > 0
    /\ ripples[5].radius = 0

\* C14: spawn validation. A click creates a ripple only if the pointer is on
\* the canvas (0 <= x <= width and 0 <= y <= height) at that moment, and then
\* the ripple is centred on the pointer; any other click leaves the list
\* unchanged.
C14_SpawnValidated ==
    [][ClickTaken
        => IF /\ 0 <= query'.x /\ query'.x <= width
              /\ 0 <= query'.y /\ query'.y <= height
           THEN /\ calls' = calls + 1
                /\ ripples'[Len(ripples')].cx = query'.x
                /\ ripples'[Len(ripples')].cy = query'.y
                /\ born'[Len(born')] = [n |-> calls', at |-> time]
           ELSE ripples' = ripples /\ born' = born /\ calls' = calls]_vars

\* C14 witness: ripples were created, the last click was just below the
\* canvas and the newest ripple is not centred on it.
C14_Witness ==
    /\ pc = Idle
    /\ query.asked
    /\ query.y > height
    /\ Len(ripples) > 0
    /\ ripples[Len(ripples)].cy # query.y
    /\ \A i \in Ripples : ripples[i].cy <= 400000

\* C15: tick ordering. The agents change only in step 3 of a frame; during
\* step 3 the ripple list does not change; and every ripple an agent sees has
\* been updated in this frame (once per frame since its creation) and is alive.
C15_TickOrdering ==
    /\ [][fishes' # fishes => pc.at = "fish"]_vars
    /\ [][pc.at = "fish" => (ripples' = ripples /\ born' = born)]_vars
    /\ [](pc.at = "fish"
            => \A i \in Ripples :
                   /\ ripples[i].alive
                   /\ ripples[i].radius = params.speed * (time - born[i].at))

\* C15 witness: the second agent of a frame is about to run; the first has
\* been pushed by a ripple created before this frame and updated in it.
C15_Witness ==
    /\ pc = [at |-> "fish", i |-> 2]
    /\ Len(ripples) > 0
    /\ ripples[1].radius = params.speed
    /\ fishes[1].maxSpeed > fishes[1].baseMaxSpeed
    /\ fishes[2].maxSpeed = fishes[2].baseMaxSpeed

----------------------------------------------------------------------------
(* RoamSpec: one Fish in a world of fixed size with no ripples, updated    *)
(* tick after tick.                                                        *)

MaxRoamTicks == 90   \* update() ticks in one run
RoamTurns == 2       \* first ticks in which the wander draw is left open

\* The constructor's draws: fast fish heading left, up, and right
RoamDraws ==
    { <<PI, 1499, 210000, 2499>>,
      <<PI + HALF_PI, 1499, 210000, 2499>>,
      <<0, 800, 359000, 1500>> }

RoamInit ==
    /\ \E d \in RoamDraws :
           fishes = <<NewFish(StartX, StartY, d[1], d[2], d[3], d[4])>>
    /\ ripples = <<>>
    /\ params = Shipped
    /\ width = 400000
    /\ height = 400000
    /\ time = 0
    /\ pc = Idle
    /\ query = NoQuery
    /\ calls = 0
    /\ pruned = 0
    /\ born = <<>>
    /\ sound = NoSound

\* fish.applyScatterForce([]); fish.update(physics, time)
RoamTick ==
    /\ calls < MaxRoamTicks
    /\ \E dtheta \in (IF time < RoamTurns THEN WanderDraws ELSE {0}) :
           fishes' = <<FishUpdate(ApplyScatterForce(fishes[1], ripples, params, width),
                                  dtheta, width, height)>>
    /\ calls' = calls + 1
    /\ time' = time + 1
    /\ UNCHANGED <<ripples, params, width, height, pc, query, pruned, born, sound>>

RoamNext == RoamTick

RoamSpec == RoamInit /\ [][RoamNext]_vars

\* C18 as claimed: containment. At the end of every update() tick the
\* position is within [-margin, width + margin] and [-margin, height + margin].
C18_Containment ==
    time > 0
        => \A k \in Fishes :
               /\ -Margin(fishes[k]) <= fishes[k].position.x
               /\ fishes[k].position.x <= width + Margin(fishes[k])
               /\ -Margin(fishes[k]) <= fishes[k].position.y
               /\ fishes[k].position.y <= height + Margin(fishes[k])

\* C18 amended: at the end of every update() tick the position is within the
\* margin extended by maxSpeed on each side: the wrap test runs before the
\* integration, so a tick can carry the position past the margin by that
\* tick's travel, at most maxSpeed.
C18_ContainmentWithinOneStep ==
    time > 0
        => \A k \in Fishes :
               LET reach == Margin(fishes[k]) + fishes[k].maxSpeed \div 10
               IN  /\ -reach <= fishes[k].position.x
                   /\ fishes[k].position.x <= width + reach
                   /\ -reach <= fishes[k].position.y
                   /\ fishes[k].position.y <= height + reach

\* C18 witness: a tick has carried the fish past the top margin, by less than
\* maxSpeed.
C18_Witness ==
    /\ time > 0
    /\ fishes[1].position.y < -Margin(fishes[1])
    /\ fishes[1].position.y >= -Margin(fishes[1]) - fishes[1].maxSpeed \div 10

----------------------------------------------------------------------------
(* ConfigSpec: a Ripple constructed and updated under a configuration that *)
(* may be out of range.                                                    *)

MaxConfigTicks == 40   \* update() calls made on the ripple in one run

\* RippleParams as shipped, and with maxRadius or waveWidth out of range
Configs ==
    { Shipped,
      [Shipped EXCEPT !.maxRadius = -50000],
      [Shipped EXCEPT !.waveWidth = 0],
      [Shipped EXCEPT !.waveWidth = -1000, !.maxRadius = 150000] }

ConfigInit ==
    /\ params \in Configs
    /\ ripples = <<>>
    /\ fishes = <<>>
    /\ width = 400000
    /\ height = 400000
    /\ time = 0
    /\ pc = Idle
    /\ query = NoQuery
    /\ calls = 0
    /\ pruned = 0
    /\ born = <<>>
    /\ sound = NoSound

\* new Ripple(x, y): the constructor has no failure path
ConfigConstruct ==
    /\ ripples = <<>>
    /\ ripples' = <<NewRipple(CentreX, CentreY, params)>>
    /\ born' = <<[n |-> 1, at |-> 0]>>
    /\ UNCHANGED <<fishes, params, width, height, time, pc, query, calls, pruned, sound>>

\* ripple.update()
ConfigTick ==
    /\ Len(ripples) = 1
    /\ calls < MaxConfigTicks
    /\ ripples' = <<RippleUpdate(ripples[1], params)>>
    /\ calls' = calls + 1
    /\ UNCHANGED <<fishes, params, width, height, time, pc, query, pruned, born, sound>>

ConfigNext == ConfigConstruct \/ ConfigTick

ConfigSpec == ConfigInit /\ [][ConfigNext]_vars

\* C19 as claimed: configuration is validated at construction. Under a
\* configuration with maxRadius <= 0 or waveWidth <= 0 the construction of a
\* Ripple fails, so no ripple exists and none is ever updated.
C19_ConfigValidated ==
    (params.maxRadius <= 0 \/ params.waveWidth <= 0) => ripples = <<>>

----------------------------------------------------------------------------
(* Properties of the roaming fish (RoamSpec), continued                    *)

\* The position is inside the band near an edge: within EDGE_BAND of it on
\* the inside, and not beyond the outer wrap margin
InEdgeBand(f, w, h) ==
    /\ ~BeyondMargin(f, w, h)
    /\ \/ f.position.x < EDGE_BAND \/ f.position.x > w - EDGE_BAND
       \/ f.position.y < EDGE_BAND \/ f.position.y > h - EDGE_BAND

\* C23 as claimed: margin steering. In a tick that starts inside the edge
\* band, update() adds a constant force pointing inward from that edge to
\* the acceleration it integrates.
C23_MarginSteering ==
    [][time' = time + 1
        => \A k \in Fishes :
               LET f == fishes[k]
                   g == fishes'[k]
                   acc == VAdd(VAdd(f.acceleration, Wander(f, g.wanderTheta - f.wanderTheta)),
                               EdgeSteer(f, width, height))
               IN  InEdgeBand(f, width, height)
                      => g.velocity = Limit(VAdd(f.velocity, acc), g.maxSpeed \div 10)]_vars

\* C23 amended: no margin steering. In a tick that starts inside the edge
\* band, the only force update() adds is the wander force and the position
\* is not teleported; the position is teleported exactly in the ticks that
\* start beyond the outer wrap margin.
C23_NoMarginSteering ==
    [][time' = time + 1
        => \A k \in Fishes :
               LET f == fishes[k]
                   g == fishes'[k]
                   acc == VAdd(f.acceleration, Wander(f, g.wanderTheta - f.wanderTheta))
                   moved == TickDelta(f, g) = g.velocity
               IN  /\ InEdgeBand(f, width, height)
                      => g.velocity = Limit(VAdd(f.velocity, acc), g.maxSpeed \div 10)
                   /\ moved <=> ~BeyondMargin(f, width, height)]_vars

\* C23 witness: the last update() started with the fish inside the band at
\* the top edge, heading outward, and the fish has kept going outward.
C23_Witness ==
    /\ time > 1
    /\ fishes[1].velocity.y < 0
    /\ fishes[1].position.y - fishes[1].velocity.y < EDGE_BAND
    /\ fishes[1].position.y - fishes[1].velocity.y >= -Margin(fishes[1])
    /\ fishes[1].position.y < fishes[1].position.y - fishes[1].velocity.y

\* C27: the position delta of a tick, from which update() takes the heading
\* and the swim phase, equals the velocity after the limit, so it is no longer
\* than maxSpeed and swimOffset grows by at most 0.15 * maxSpeed in a tick,
\* also in a tick in which the fish is wrapped.
C27_DeltaIsVelocity ==
    [][time' = time + 1 =>
         \A k \in Fishes :
             LET f == fishes[k]
                 g == fishes'[k]
                 d == TickDelta(f, g)
             IN  /\ d = g.velocity
                 /\ Mag(d) <= g.maxSpeed \div 10 + 1
                 /\ g.swimOffset - f.swimOffset <= (15 * (g.maxSpeed \div 10)) \div 100 + 1]_vars

----------------------------------------------------------------------------
(* DrainSpec: the host loop run until the ripples have drained.  The user  *)
(* clicks a bounded number of times between the first frames and then no   *)
(* more; draw() is called on every animation frame, so its steps keep      *)
(* being taken, and the run is followed for as long as a ripple is left.   *)

MaxDrainClicks == 6   \* clicks in one run
ClickFrames == 2      \* frames before which the user still clicks

\* Ripple configurations of the runs: ripples that end on their 2nd frame, on
\* their 3rd (maxRadius a multiple of speed) and on their 4th
DrainConfigs ==
    { HostParams,
      [Shipped EXCEPT !.speed = 100000],
      [Shipped EXCEPT !.speed = 60000] }

\* The values of the position in draw()
DrainPcs ==
    { Idle, [at |-> "prune", i |-> 0], [at |-> "display", i |-> 0] }
        \cup { [at |-> "fish", i |-> k] : k \in 1 .. NumFish }

DrainInit ==
    /\ fishes = [i \in 1 .. NumFish |-> HostFish(i)]
    /\ ripples = <<>>
    /\ params \in DrainConfigs
    /\ width = 400000
    /\ height = 400000
    /\ time = 0
    /\ pc = Idle
    /\ query = NoQuery
    /\ calls = 0
    /\ pruned = 0
    /\ born = <<>>
    /\ sound = NoSound

\* p.mousePressed
DrainClick ==
    /\ calls < MaxDrainClicks
    /\ time < ClickFrames
    /\ MousePressed

\* p.draw, lines 68-78: time advances and every ripple is updated
DrainUpdateRipples ==
    /\ pc = Idle
    /\ time < ClickFrames \/ ripples # <<>>
    /\ time' = time + 1
    /\ ripples' = UpdateAll(ripples, params)
    /\ pc' = [at |-> "prune", i |-> 0]
    /\ query' = NoQuery
    /\ UNCHANGED <<fishes, params, width, height, calls, pruned, born, sound>>

DrainNext ==
    \/ DrainClick
    \/ DrainUpdateRipples
    \/ DrawPrune
    \/ DrawFish
    \/ DrawRippleDisplay

\* A frame starts, told by the frame counter
FrameStarted ==
    /\ pc = Idle
    /\ time < ClickFrames \/ ripples # <<>>
    /\ time' = time + 1

\* draw() goes on to its next step, told by the position
FrameContinued ==
    /\ pc # Idle
    /\ pc' \in DrainPcs
    /\ pc' # pc

DrainSpec ==
    /\ DrainInit
    /\ [][DrainNext]_vars
    /\ WF_time(FrameStarted)
    /\ WF_pc(FrameContinued)

----------------------------------------------------------------------------
(* Properties of the draining host loop (DrainSpec)                        *)

\* floor(maxRadius / speed) + 1: the update() that takes radius above maxRadius
Lifetime(P) == P.maxRadius \div P.speed + 1

\* The creation records of xs that are not in ys
GoneFrom(xs, ys) ==
    { xs[i] : i \in 1 .. Len(xs) } \ { ys[j] : j \in 1 .. Len(ys) }

\* C29: every ripple is removed within floor(maxRadius / speed) + 1 frames of
\* its creation: it leaves the list in step 2 of that frame, or earlier
\* when a click evicts it as the oldest of MAX_RIPPLES; and, the clicks being
\* finitely many, the list becomes empty and stays empty.
C29_RipplesDrain ==
    /\ [](\A i \in 1 .. Len(born) :
            time - born[i].at <= (IF pc.at = "prune" THEN Lifetime(params)
                                  ELSE Lifetime(params) - 1))
    /\ [][\A b \in GoneFrom(born, born') :
             \/ pc.at = "prune" /\ time - b.at = Lifetime(params)
             \/ /\ pc = Idle
                /\ Len(born) = MAX_RIPPLES
                /\ b = born[1]
                /\ Len(ripples') = MAX_RIPPLES]_vars
    /\ [](Len(born) = Len(ripples))
    /\ <>[](ripples = <<>>)

\* C29 witness: step 2 of a frame has just dropped the ripples that ended in
\* it, younger ripples are still expanding, and a ripple was evicted before.
C29_Witness ==
    /\ pc = [at |-> "fish", i |-> 1]
    /\ pruned > 0
    /\ Len(ripples) > 0
    /\ calls = MaxDrainClicks
    /\ time > ClickFrames

----------------------------------------------------------------------------
(* SoundSpec: playDropSound() called from outside a bounded number of      *)
(* times, interleaved in every way with the steps of the loads under way.  *)
(* Each await of loadBuffer() ends in a task of its own; the continuation  *)
(* after the last await and the then-callback of playDropSound() run       *)
(* before any other task.                                                  *)

MaxPlays == 4   \* playDropSound() calls made from outside in one run

Loads == 1 .. Len(sound.loads)

SoundInit ==
    /\ fishes = <<>>
    /\ ripples = <<>>
    /\ params = Shipped
    /\ width = 400000
    /\ height = 400000
    /\ time = 0
    /\ pc = Idle
    /\ query = NoQuery
    /\ calls = 0
    /\ pruned = 0
    /\ born = <<>>
    /\ sound = NoSound

\* playDropSound(), called by mousePressed
SoundPlay ==
    /\ sound.plays < MaxPlays
    /\ sound' = PlayDropSound([sound EXCEPT !.plays = @ + 1])
    /\ UNCHANGED <<fishes, ripples, params, width, height, time, pc, query, calls, pruned, born>>

\* loadBuffer(), line 15: the fetch answers; res.arrayBuffer() is asked for
LoadFetched ==
    /\ \E i \in Loads :
           /\ sound.loads[i] = "fetch"
           /\ sound' = [sound EXCEPT !.loads[i] = "body"]
    /\ UNCHANGED <<fishes, ripples, params, width, height, time, pc, query, calls, pruned, born>>

\* loadBuffer(), lines 16-17: the body has arrived; decodeAudioData is called
LoadBodyRead ==
    /\ \E i \in Loads :
           /\ sound.loads[i] = "body"
           /\ sound' = [sound EXCEPT !.loads[i] = "decode", !.decodes = @ + 1]
    /\ UNCHANGED <<fishes, ripples, params, width, height, time, pc, query, calls, pruned, born>>

\* loadBuffer(), line 17, and the then-callback of line 23: the decoded
\* buffer is stored in audioBuffer and playDropSound() is called again
LoadDecoded ==
    /\ \E i \in Loads :
           /\ sound.loads[i] = "decode"
           /\ sound' = PlayDropSound([sound EXCEPT !.loads[i] = "done", !.buffer = TRUE])
    /\ UNCHANGED <<fishes, ripples, params, width, height, time, pc, query, calls, pruned, born>>

SoundNext == SoundPlay \/ LoadFetched \/ LoadBodyRead \/ LoadDecoded

SoundSpec == SoundInit /\ [][SoundNext]_vars

----------------------------------------------------------------------------
(* Properties of the drop sound (SoundSpec)                                *)

\* C30: the audio file is fetched and decoded at most once and a single
\* AudioContext is created, however the playDropSound() calls interleave with
\* the loads under way; and once the buffer is there and no load is under
\* way, every playDropSound() call has led to exactly one source.start().
C30_LoadedOnce ==
    /\ sound.fetches <= 1
    /\ sound.decodes <= 1
    /\ sound.ctxs <= 1
    /\ (sound.buffer /\ \A i \in Loads : sound.loads[i] = "done")
           => sound.starts = sound.plays
====
